---------------------------- MODULE Spec2Model ----------------------------
(***************************************************************************)
(* A model of pystemd's introspection-driven object proxy (base.py) and of *)
(* the transient-unit orchestrator pystemd.run (run.py).                   *)
(*                                                                         *)
(* Two specifications share the proxy operators:                           *)
(*   Spec       one invocation of run(), from its arguments to its result; *)
(*   ProxySpec  a proxy object (SDObject) and the operations on it.        *)
(*                                                                         *)
(* Python's None is the empty set and a present value v is {v}, so that a  *)
(* value of any type can be compared with None.  Names (interface, method, *)
(* attribute names) are sequences of characters, so that startswith and    *)
(* slicing are computed as Python computes them.                           *)
(***************************************************************************)
EXTENDS Integers, Sequences, FiniteSets, TLC

None == {}
Some(v) == {v}
Val(o) == CHOOSE v \in o : TRUE

Range(s) == {s[i] : i \in DOMAIN s}

RECURSIVE Reverse(_)
Reverse(s) == IF s = <<>> THEN <<>> ELSE Append(Reverse(Tail(s)), Head(s))

\* dict.update(e): the keys of e are added to d, e's value winning.
DictUpdate(d, e) ==
    [k \in DOMAIN d \cup DOMAIN e |-> IF k \in DOMAIN e THEN e[k] ELSE d[k]]

EmptyDict == [k \in {} |-> None]

(***************************************************************************)
(* Bounds of the model.                                                    *)
(***************************************************************************)
MaxRuntimeSec == 2
MaxOps == 3
MaxArgs == 2
MaxAccess == 1

(***************************************************************************)
(* The service side: names and introspection documents.                    *)
(***************************************************************************)
Dest == <<"s">>
IfaceA == <<"s", ".", "A">>
IfaceM == <<"s", ".", "M">>
IfaceB == <<"o", ".", "B">>
MethM == <<"M">>
MethG == <<"G">>
PropP == <<"P">>
PropQ == <<"Q">>

Arg(type, direction) == [tag |-> "arg", type |-> type, direction |-> direction]
Method(name, args) ==
    [tag |-> "method", name |-> name, type |-> <<>>, access |-> "", args |-> args]
Property(name, type, access) ==
    [tag |-> "property", name |-> name, type |-> type, access |-> access,
     args |-> <<>>]
Signal(name) ==
    [tag |-> "signal", name |-> name, type |-> <<>>, access |-> "", args |-> <<>>]
Node(tag, name, children) == [tag |-> tag, name |-> name, children |-> children]

Doc1 ==
    << Node("interface", IfaceA,
            << Method(MethM, <<Arg(<<"s">>, "in"), Arg(<<"u">>, "out")>>),
               Property(PropP, <<"s">>, "read"),
               Signal(<<"S">>) >>),
       Node("node", <<"c">>, <<>>),
       Node("interface", IfaceB,
            << Method(MethM, <<Arg(<<"s">>, "in"),
                               Arg(<<"a", "{", "s", "v", "}">>, "in")>>),
               Property(PropQ, <<"u">>, "readwrite") >>) >>

Doc2 ==
    << Node("interface", IfaceA,
            << Method(MethG, <<>>),
               Method(MethM, <<Arg(<<"s">>, "in")>>) >>),
       Node("interface", IfaceM,
            << Method(MethG, <<Arg(<<"v">>, "in")>>) >>) >>

Docs == {Doc1, Doc2}

(***************************************************************************)
(* base.py: the proxy object and the interfaces generated for it.          *)
(***************************************************************************)
StartsWith(s, prefix) ==
    /\ Len(prefix) <= Len(s)
    /\ SubSeq(s, 1, Len(prefix)) = prefix

\* s[n:] of Python (n counted from 0).
SliceFrom(s, n) == SubSeq(s, n + 1, Len(s))

\* The last element of seq named name: a dict filled in document order.
LastNamed(seq, name) ==
    LET idx == {i \in DOMAIN seq : seq[i].name = name}
    IN  seq[CHOOSE i \in idx : \A j \in idx : j <= i]

Names(seq) == [i \in DOMAIN seq |-> seq[i].name]

\* SDObject.__init__, before any _autoload.
SDObject(destination, path, bus) ==
    [destination |-> destination, path |-> path, _bus |-> bus,
     _loaded |-> FALSE, _interfaces |-> EmptyDict, attrs |-> EmptyDict,
     bus_context |-> "bus_context"]

\* The class meta_interface builds for one <interface> element.
meta_interface(interface) ==
    LET elements == interface.children
        props == SelectSeq(elements, LAMBDA e : e.tag = "property")
        meths == SelectSeq(elements, LAMBDA e : e.tag = "method")
    IN  [properties |-> Names(props),
         methods |-> Names(meths),
         _properties_xml |->
             [n \in Range(Names(props)) |-> LastNamed(props, n)],
         _methods_xml |->
             [n \in Range(Names(meths)) |-> LastNamed(meths, n)]]

\* The guard of load(): TRUE when load goes on to fetch the document.
NeedsFetch(o, force) == ~(o._loaded /\ ~force)

\* The loop of load() over the document's top-level nodes.  attrs are the
\* attributes setattr puts on the object: shortcut name -> interface name.
RECURSIVE LoadNodes(_, _)
LoadNodes(o, nodes) ==
    IF nodes = <<>> THEN o
    ELSE LET interface == Head(nodes)
             interface_name == interface.name
             stored == [o EXCEPT !._interfaces =
                           DictUpdate(@, interface_name :> meta_interface(interface))]
             aliased == [stored EXCEPT !.attrs =
                            DictUpdate(@, SliceFrom(interface_name,
                                                    Len(o.destination) + 1)
                                          :> interface_name)]
             next == IF interface.tag # "interface" THEN o
                     ELSE IF StartsWith(interface_name, o.destination)
                          THEN aliased
                          ELSE stored
         IN  LoadNodes(next, Tail(nodes))

\* load() once the document is fetched.  _loaded is assigned nowhere.
load(o, unit_xml) == LoadNodes(o, unit_xml)

\* bus_context without its try/finally: a body that raises leaves the
\* fresh transport open.
bus_context_leaky(o, openOk, bodyOk) ==
    [bus |-> IF o._bus = None THEN "fresh" ELSE "ext",
     entered |-> o._bus # None \/ openOk,
     created |-> IF o._bus = None THEN 1 ELSE 0,
     closes |-> IF o._bus = None /\ openOk /\ bodyOk THEN 1 ELSE 0,
     extCloses |-> 0]

\* bus_context: what one scope does, given whether opening the fresh
\* transport succeeds and whether the body run inside the scope succeeds.
\*   bus      the transport the body is given
\*   entered  whether the body runs at all
\*   created  fresh transports made, closes: close() calls on them
\*   extCloses  close() calls on the transport the proxy was given
bus_context(o, openOk, bodyOk) ==
    LET close_bus_at_end == o._bus = None
    IN  [bus |-> IF o._bus = None THEN "fresh" ELSE "ext",
         entered |-> o._bus # None \/ openOk,
         created |-> IF o._bus = None THEN 1 ELSE 0,
         closes |-> IF close_bus_at_end THEN 1 ELSE 0,
         extCloses |-> 0]

\* getattr(sd_object, name, None): an attribute set by load() shadows a method
\* of the class; methods is the class's signed methods, name -> interfaces.
getattr(o, methods, name) ==
    IF name \in DOMAIN o.attrs
    THEN [kind |-> "interface", callable |-> FALSE, overwrite_interfaces |-> {}]
    ELSE IF name \in DOMAIN methods
         THEN [kind |-> "method", callable |-> TRUE,
               overwrite_interfaces |-> methods[name]]
         ELSE [kind |-> "None", callable |-> FALSE, overwrite_interfaces |-> {}]

\* The decorator: signs method name of the class for one more interface.
overwrite_interface_method(methods, interface, name) ==
    DictUpdate(methods,
               name :> ((IF name \in DOMAIN methods THEN methods[name] ELSE {})
                        \cup {interface}))

HasBlockChar(type) == \E i \in DOMAIN type : type[i] \in {"v", "{"}

\* The two checks in the other order: the signature is looked at before
\* the number of arguments.
_auto_call_dbus_method_signature_first(in_args, args) ==
    IF \E i \in DOMAIN in_args : HasBlockChar(in_args[i])
    THEN "NotImplementedError"
    ELSE IF Len(args) # Len(in_args) THEN "TypeError"
         ELSE "none"

\* _auto_call_dbus_method up to the transport call: the error it raises, if any.
_auto_call_dbus_method(in_args, args) ==
    IF Len(args) # Len(in_args) THEN "TypeError"
    ELSE IF \E i \in DOMAIN in_args : HasBlockChar(in_args[i])
         THEN "NotImplementedError"
         ELSE "none"

\* _call_method: the route a call takes and what it hands on.
_call_method(o, methods, interface_name, method_name, args) ==
    LET overwrite_method == getattr(o, methods, method_name)
        overwrite_interfaces == overwrite_method.overwrite_interfaces
        meth == o._interfaces[interface_name]._methods_xml[method_name]
        in_args == [i \in DOMAIN SelectSeq(meth.args,
                                           LAMBDA a : a.direction = "in")
                    |-> SelectSeq(meth.args, LAMBDA a : a.direction = "in")[i].type]
    IN  IF overwrite_method.callable /\ interface_name \in overwrite_interfaces
        THEN [route |-> "override", args |-> <<interface_name>> \o args,
              err |-> "none"]
        ELSE [route |-> "generic", args |-> args,
              err |-> _auto_call_dbus_method(in_args, args)]

\* A setter that lets the write of a writable property pass in silence.
_set_property_silent(o, interface_name, property_name) ==
    LET prop_access ==
            o._interfaces[interface_name]._properties_xml[property_name].access
    IN  IF prop_access = "read" THEN "AttributeError" ELSE "none"

\* _set_property: it only ever raises.
_set_property(o, interface_name, property_name) ==
    LET prop_access ==
            o._interfaces[interface_name]._properties_xml[property_name].access
    IN  IF prop_access = "read" THEN "AttributeError" ELSE "NotImplementedError"

(***************************************************************************)
(* run.py: the pure parts of run().                                        *)
(***************************************************************************)
EXIT_SUBSTATES == {"exited", "failed", "dead"}

USecPerSec == 1000000

\* The objects a caller passes as stdin, stdout or stderr.
NoneObj == [kind |-> "None", n |-> 0]
IntObj(n) == [kind |-> "int", n |-> n]
FileObj(n) == [kind |-> "file", n |-> n]
OtherObj == [kind |-> "other", n |-> 0]

\* get_fno raises TypeError exactly on these.
get_fno_raises(fobj) == fobj.kind \notin {"None", "int", "file"}

get_fno(fobj) == IF fobj.kind = "None" THEN None ELSE Some(fobj.n)

\* Truth of an optional integer, of an optional string (a character
\* sequence) and of a dict, as Python's `if x`, `x or y` take it.
TruthyInt(x) == x # None /\ Val(x) # 0
TruthySeq(x) == x # None /\ Val(x) # <<>>

\* runtime_max_usec = (runtime_max_sec or 0) * 10**6 or runtime_max_sec
runtime_max_usec(runtime_max_sec) ==
    LET secs == IF TruthyInt(runtime_max_sec) THEN Val(runtime_max_sec) ELSE 0
        usec == secs * USecPerSec
    IN  IF usec # 0 THEN Some(usec) ELSE runtime_max_sec

\* name = name or 'pystemd<uuid>.service'
GeneratedName == <<"p", "y">>
unit_name(name) == IF TruthySeq(name) THEN Val(name) ELSE GeneratedName

\* _wait_polling after `if user_mode: _wait_polling = _wait_polling or 0.5`;
\* the numbers are tenths of a second.
wait_polling(user_mode, polling) ==
    IF user_mode THEN (IF TruthyInt(polling) THEN polling ELSE Some(5))
    ELSE polling

\* The routing with the `else` lost: the descriptor properties are set in
\* terminal mode as well.
routing_properties_both(pty_path, stdin, stdout, stderr) ==
    LET descriptors ==
            ("StandardInputFileDescriptor" :> stdin)
            @@ ("StandardOutputFileDescriptor" :> stdout)
            @@ ("StandardErrorFileDescriptor" :> stderr)
    IN  IF TruthySeq(pty_path)
        THEN ("StandardInput" :> Some("tty")) @@ ("StandardOutput" :> Some("tty"))
             @@ ("StandardError" :> Some("tty")) @@ ("TTYPath" :> pty_path)
             @@ descriptors
        ELSE descriptors

\* The stream routing properties: lines 163-169 and 192-197.
routing_properties(pty_path, stdin, stdout, stderr) ==
    IF TruthySeq(pty_path)
    THEN ("StandardInput" :> Some("tty")) @@ ("StandardOutput" :> Some("tty"))
         @@ ("StandardError" :> Some("tty")) @@ ("TTYPath" :> pty_path)
    ELSE ("StandardInputFileDescriptor" :>
              (IF TruthyInt(stdin) THEN get_fno(IntObj(Val(stdin))) ELSE stdin))
         @@ ("StandardOutputFileDescriptor" :>
              (IF TruthyInt(stdout) THEN get_fno(IntObj(Val(stdout))) ELSE stdout))
         @@ ("StandardErrorFileDescriptor" :>
              (IF TruthyInt(stderr) THEN get_fno(IntObj(Val(stderr))) ELSE stderr))

\* env[b'TERM'] = env.get(b'TERM', os.getenv('TERM')), done when the terminal
\* master is forwarded to stdout and the process has a TERM.
env_with_term(env, forwards, os_TERM) ==
    IF forwards /\ TruthySeq(os_TERM) /\ "TERM" \notin DOMAIN env
    THEN DictUpdate(env, "TERM" :> Val(os_TERM))
    ELSE env

\* [b'%s=%s' % (key, value) for key, value in env.items()] or None
environment(env) ==
    IF DOMAIN env = {} THEN None ELSE Some({<<k, env[k]>> : k \in DOMAIN env})

\* The computed properties: lines 199-211.
computed_properties(a, name, env) ==
    ("Description" :> Some(<<"pystemd: ", name>>))
    @@ ("ExecStart" :> Some(<<a.cmd[1], a.cmd, FALSE>>))
    @@ ("RemainAfterExit" :> Some(a.remain_after_exit))
    @@ ("WorkingDirectory" :> a.cwd)
    @@ ("User" :> a.user)
    @@ ("Nice" :> a.nice)
    @@ ("RuntimeMaxUSec" :> runtime_max_usec(a.runtime_max_sec))
    @@ ("Environment" :> environment(env))

\* The comprehension without its filter.
drop_none_kept(d) == d

\* {k: v for k, v in unit_properties.items() if v is not None}
drop_none(d) == [k \in {x \in DOMAIN d : d[x] # None} |-> d[k]]

\* The bag with the caller's extra properties put in first: the computed
\* properties win.
unit_properties_of_defaults_last(a, pty_path, pty_master) ==
    LET stdin == get_fno(a.stdin)
        stdout == get_fno(a.stdout)
        stderr == get_fno(a.stderr)
        forwards == TruthySeq(pty_path) /\ stdout # None /\ pty_master # None
        env == env_with_term(a.env, forwards, a.os_TERM)
        routed == DictUpdate(a.extra,
                             routing_properties(pty_path, stdin, stdout, stderr))
        computed == DictUpdate(routed,
                               computed_properties(a, unit_name(a.name), env))
    IN  drop_none(computed)

\* unit_properties as submitted: routing, then computed, then extra, then
\* the None values dropped (lines 163-215).
unit_properties_of(a, pty_path, pty_master) ==
    LET stdin == get_fno(a.stdin)
        stdout == get_fno(a.stdout)
        stderr == get_fno(a.stderr)
        forwards == TruthySeq(pty_path) /\ stdout # None /\ pty_master # None
        env == env_with_term(a.env, forwards, a.os_TERM)
        routed == routing_properties(pty_path, stdin, stdout, stderr)
        computed == DictUpdate(routed,
                               computed_properties(a, unit_name(a.name), env))
        merged == DictUpdate(computed, a.extra)
    IN  drop_none(merged)

\* Unit(name).path: the object path the service gives the unit of that name.
unit_path(name) == <<"/">> \o name

\* CExit.__exit__: the registered calls it makes, in order, when its k-th
\* call raises (k = 0: none raises).
CExit_exit(registered, k) ==
    LET order == Reverse(registered)
    IN  IF k = 0 THEN order ELSE SubSeq(order, 1, k)

\* A transport of bus_factory() used as a context manager: it opens on
\* entry and closes on exit; an entry that raises runs no exit.
bus_factory_scope(openOk) ==
    [bus |-> "fresh", entered |-> openOk, created |-> 1,
     closes |-> IF openOk THEN 1 ELSE 0, extCloses |-> 0]

\* The scope `with sd_object.bus_context() as bus` opens: SDObject's own
\* bus_context, or the bus_factory run() puts in its place.
Scope(o, openOk, bodyOk) ==
    IF o.bus_context = "bus_factory"
    THEN bus_factory_scope(openOk)
    ELSE bus_context(o, openOk, bodyOk)

(***************************************************************************)
(* The state.                                                              *)
(***************************************************************************)
VARIABLES
    a,                \* the arguments of run()
    pc,               \* where run() is
    excs,             \* the exception propagating (head) and its context
    ret,              \* what run() is returning: "None" or "unit"
    pipe,             \* CExit.pipe: the registered cleanup calls
    ran,              \* the cleanup calls CExit.__exit__ has made
    selectors,        \* the list select() waits on
    pty_master,       \* the terminal master descriptor, or None
    pty_path,         \* the terminal path, or None
    stdin_raw,        \* whether stdin is in raw mode
    unit_properties,  \* the property bag
    submitted,        \* the StartTransientUnit call and whether it succeeded,
                      \* or None
    bus,              \* run()'s transport: "new", "open", "closed"
    monbus,           \* the monitoring transport: "none", "open", "closed"
    subscribed,       \* whether BecomeMonitor has succeeded
    lastMsg,          \* the message the last round pumped, or None
    waitLoop,         \* the wait loop: "none" until its first round, then
                      \* "running", or how it was left
    lastRound,        \* the last round of the wait loop: what select() gave
                      \* ready, whether reading the terminal master failed
                      \* (in it, or in a round before), the MainPID read
    obj,              \* the proxy: run()'s unit, or the proxy under test
    methods,          \* the signed methods of the proxy's class
    doc,              \* the document the service answers Introspect with
    tr,               \* transports the proxy itself made and closed
    fetches,          \* Introspect calls answered, forced loads asked
    lastOp,           \* the last operation on the proxy
    ops               \* operations done on the proxy

runVars == <<a, pc, excs, ret, pipe, ran, selectors, pty_master, pty_path,
             stdin_raw, unit_properties, submitted, bus, monbus, subscribed,
             lastMsg, waitLoop, lastRound>>
proxyVars == <<obj, methods, doc, tr, fetches, lastOp, ops>>
vars == <<runVars, proxyVars>>

\* elem is the <method> or <property> element the operation looked up,
\* packed whether apply_signature was called, forced and fetched_doc the
\* force of a load and the document it got.
NoOp ==
    [kind |-> "none", iface |-> <<>>, name |-> <<>>, args |-> <<>>,
     handed |-> <<>>, route |-> "none", err |-> "none", scopes |-> 0,
     bus |-> "none", reached |-> FALSE, signed |-> FALSE, hidden |-> FALSE,
     elem |-> Signal(<<>>), packed |-> FALSE, forced |-> FALSE,
     fetched_doc |-> <<>>]

\* The transports a scope made and closed, added to the account.
Account(t, sc) ==
    [created |-> t.created + sc.created, closed |-> t.closed + sc.closes,
     extCloses |-> t.extCloses + sc.extCloses]

(***************************************************************************)
(* The arguments run() is called with.                                     *)
(***************************************************************************)
TtyPath == <<"/", "t">>

\* The arguments that only shape the property bag, a few callers' worth.
Profiles ==
    { [name |-> None, user |-> None, nice |-> None, cwd |-> None,
       env |-> EmptyDict, extra |-> EmptyDict, stderr |-> NoneObj,
       os_TERM |-> None],
      [name |-> Some(<<"u">>), user |-> Some("root"), nice |-> Some(0),
       cwd |-> Some("/tmp"), env |-> ("A" :> "1"),
       extra |-> ("Nice" :> Some(5)) @@ ("StandardOutput" :> Some("journal"))
                 @@ ("User" :> None),
       stderr |-> IntObj(2), os_TERM |-> Some(<<"x">>)],
      [name |-> Some(<<>>), user |-> None, nice |-> Some(3), cwd |-> None,
       env |-> EmptyDict, extra |-> EmptyDict, stderr |-> OtherObj,
       os_TERM |-> Some(<<"x">>)] }

Runtimes == {None} \cup {Some(n) : n \in 0..MaxRuntimeSec}

RunArgs ==
    { [cmd |-> <<"/bin/echo", "hi">>,
       name |-> p.name, user |-> p.user, nice |-> p.nice, cwd |-> p.cwd,
       env |-> p.env, extra |-> p.extra, stderr |-> p.stderr,
       os_TERM |-> p.os_TERM,
       runtime_max_sec |-> r,
       user_mode |-> c[1], _wait_polling |-> IF c[2] THEN Some(1) ELSE None,
       machine |-> IF c[3] THEN Some("m") ELSE None,
       wait |-> c[4], remain_after_exit |-> c[5],
       pty |-> c[6],
       pty_master |-> IF c[7] THEN Some("pty_master") ELSE None,
       pty_path |-> IF c[8] THEN Some(TtyPath) ELSE None,
       stdin |-> IF c[9] THEN IntObj(0) ELSE NoneObj,
       stdout |-> IF c[10] THEN FileObj(1) ELSE NoneObj]
      : p \in Profiles, r \in Runtimes, c \in [1..10 -> BOOLEAN] }

(***************************************************************************)
(* run(): one action per step of the function.                             *)
(***************************************************************************)
UnitDest == Dest
DocBefore == Doc1
DocAfter == Doc2

stdin == get_fno(a.stdin)
stdout == get_fno(a.stdout)
polling == wait_polling(a.user_mode, a._wait_polling)

\* An exception leaves the body of the `with`: the exits run next.
Raise(e) ==
    /\ excs' = <<e>>
    /\ pc' = "unwind"

\* Lines 139-152: the descriptors are resolved, then the `with` is entered:
\* the transport opens and the manager's proxy loads.
Enter ==
    /\ pc = "start"
    /\ IF \E f \in {a.stdin, a.stdout, a.stderr} : get_fno_raises(f)
       THEN /\ pc' = "done"
            /\ excs' = <<"TypeError">>
            /\ UNCHANGED bus
       ELSE \E outcome \in {"ok", "open_fails", "manager_fails"} :
              CASE outcome = "ok" ->
                     /\ bus' = "open"
                     /\ pc' = "pty"
                     /\ UNCHANGED excs
                [] outcome = "open_fails" ->
                     /\ Raise("bus.open")
                     /\ UNCHANGED bus
                [] outcome = "manager_fails" ->
                     /\ bus' = "open"
                     /\ Raise("manager.load")
    /\ UNCHANGED <<a, ret, pipe, ran, selectors, pty_master, pty_path,
                   stdin_raw, unit_properties, submitted, monbus, subscribed,
                   lastMsg, waitLoop, lastRound, proxyVars>>

\* The master descriptors run() acquires itself: from ptylib.openpty() and
\* from the machine's OpenPTY().
LocalMaster == "local_master"
MachineMaster == "machine_master"

\* Lines 154-161: the terminal is acquired when pty is asked for.
AcquirePty ==
    /\ pc = "pty"
    /\ IF a.pty
       THEN IF a.machine # None
            THEN \E ok \in BOOLEAN :
                   IF ok
                   THEN /\ pty_master' = Some(MachineMaster)
                        /\ pty_path' = Some(TtyPath)
                        /\ pc' = "build"
                        /\ UNCHANGED <<excs, pipe>>
                   ELSE /\ Raise("OpenPTY")
                        /\ UNCHANGED <<pty_master, pty_path, pipe>>
            ELSE \E outcome \in {"ok", "openpty_fails", "ttyname_fails"} :
                   CASE outcome = "ok" ->
                          /\ pty_master' = Some(LocalMaster)
                          /\ pty_path' = Some(TtyPath)
                          /\ pipe' = Append(pipe, "os.close(pty_master)")
                          /\ pc' = "build"
                          /\ UNCHANGED excs
                     [] outcome = "openpty_fails" ->
                          /\ Raise("openpty")
                          /\ UNCHANGED <<pty_master, pty_path, pipe>>
                     [] outcome = "ttyname_fails" ->
                          /\ pty_master' = Some(LocalMaster)
                          /\ Raise("ttyname")
                          /\ UNCHANGED <<pty_path, pipe>>
       ELSE /\ pc' = "build"
            /\ UNCHANGED <<pty_master, pty_path, pipe, excs>>
    /\ UNCHANGED <<a, ret, ran, selectors, stdin_raw, unit_properties,
                   submitted, bus, monbus, subscribed, lastMsg, waitLoop, lastRound,
                   proxyVars>>

\* Lines 163-215: the routing is set up and the property bag is built.
Build ==
    /\ pc = "build"
    /\ LET terminal == TruthySeq(pty_path)
           fwd_in == terminal /\ stdin # None /\ pty_master # None
           fwd_out == terminal /\ stdout # None /\ pty_master # None
           with_in == IF fwd_in THEN Append(selectors, "stdin") ELSE selectors
           registered == IF fwd_in THEN Append(pipe, "tty.tcsetattr(stdin)")
                         ELSE pipe
       IN  \E outcome \in {"ok"} \cup (IF fwd_in THEN {"tcgetattr_fails"} ELSE {})
                          \cup (IF fwd_out THEN {"ioctl_fails"} ELSE {}) :
             CASE outcome = "ok" ->
                    /\ stdin_raw' = fwd_in
                    /\ pipe' = registered
                    /\ selectors' = IF fwd_out
                                    THEN Append(with_in, "pty_master")
                                    ELSE with_in
                    /\ unit_properties' =
                           unit_properties_of(a, pty_path, pty_master)
                    /\ pc' = "unit"
                    /\ UNCHANGED excs
               [] outcome = "tcgetattr_fails" ->
                    /\ Raise("tcgetattr")
                    /\ UNCHANGED <<stdin_raw, pipe, selectors, unit_properties>>
               [] outcome = "ioctl_fails" ->
                    /\ stdin_raw' = fwd_in
                    /\ pipe' = registered
                    /\ selectors' = Append(with_in, "pty_master")
                    /\ Raise("ioctl")
                    /\ UNCHANGED unit_properties
    /\ UNCHANGED <<a, ret, ran, pty_master, pty_path, submitted, bus, monbus,
                   subscribed, lastMsg, waitLoop, lastRound, proxyVars>>

\* One call of load(force) on proxy o while the service answers with
\* document d: the proxy afterwards, the scope it opened (none when the
\* guard returns early), whether the document was fetched, whether it raised.
load_call(o, force, d, openOk, ok) ==
    IF ~NeedsFetch(o, force)
    THEN [obj |-> o, scopes |-> 0, sc |-> Scope(o, FALSE, FALSE),
          fetched |-> FALSE, raised |-> FALSE]
    ELSE LET sc == Scope(o, openOk, ok)
             fetched == sc.entered /\ ok
         IN  [obj |-> IF fetched THEN load(o, d) ELSE o, scopes |-> 1,
              sc |-> sc, fetched |-> fetched, raised |-> ~fetched]

\* The accounts after a load_call.
Booked(t, r) == IF r.scopes = 0 THEN t ELSE Account(t, r.sc)
Counted(f, r, force) ==
    IF r.fetched
    THEN [f EXCEPT !.answered = @ + 1, !.forced = @ + (IF force THEN 1 ELSE 0)]
    ELSE f

\* The monitoring set up whether or not the caller waits.
next_after_unit_monitoring(wait) == "monitor"

\* Line 218, `if wait:`: where run() goes once the unit's proxy is made.
next_after_unit(wait) == IF wait THEN "monitor" ELSE "submit"

\* Line 217: unit = Unit(name, bus=bus, _autoload=True).
MakeUnit ==
    /\ pc = "unit"
    /\ \E ok \in BOOLEAN :
         LET fresh == SDObject(UnitDest, unit_path(unit_name(a.name)), Some("bus"))
             r == load_call(fresh, FALSE, doc, TRUE, ok)
         IN  /\ obj' = r.obj
             /\ tr' = Booked(tr, r)
             /\ fetches' = Counted(fetches, r, FALSE)
             /\ IF r.raised
                THEN Raise("unit.load")
                ELSE /\ pc' = next_after_unit(a.wait)
                     /\ UNCHANGED excs
    /\ UNCHANGED <<a, ret, pipe, ran, selectors, pty_master, pty_path,
                   stdin_raw, unit_properties, submitted, bus, monbus,
                   subscribed, lastMsg, waitLoop, lastRound, methods, doc, lastOp, ops>>

\* The monitoring with a failed subscription let through: run() goes on to
\* submit the unit.
Monitor_unchecked ==
    /\ pc = "monitor"
    /\ \E outcome \in {"ok", "open_fails", "subscribe_fails"} :
         CASE outcome = "ok" ->
                /\ monbus' = "open"
                /\ pipe' = Append(pipe, "monbus.close")
                /\ subscribed' = TRUE
                /\ selectors' = Append(selectors, "monitor_fd")
                /\ pc' = "submit"
                /\ UNCHANGED excs
           [] outcome = "open_fails" ->
                /\ Raise("monbus.open")
                /\ UNCHANGED <<monbus, pipe, subscribed, selectors>>
           [] outcome = "subscribe_fails" ->
                /\ monbus' = "open"
                /\ pipe' = Append(pipe, "monbus.close")
                /\ pc' = "submit"
                /\ UNCHANGED <<subscribed, selectors, excs>>
    /\ UNCHANGED <<a, ret, ran, pty_master, pty_path, stdin_raw,
                   unit_properties, submitted, bus, lastMsg, waitLoop, lastRound,
                   proxyVars>>

\* Lines 218-235: the monitoring transport is opened and subscribed.
Monitor ==
    /\ pc = "monitor"
    /\ \E outcome \in {"ok", "open_fails", "subscribe_fails"} :
         CASE outcome = "ok" ->
                /\ monbus' = "open"
                /\ pipe' = Append(pipe, "monbus.close")
                /\ subscribed' = TRUE
                /\ selectors' = Append(selectors, "monitor_fd")
                /\ pc' = "submit"
                /\ UNCHANGED excs
           [] outcome = "open_fails" ->
                /\ Raise("monbus.open")
                /\ UNCHANGED <<monbus, pipe, subscribed, selectors>>
           [] outcome = "subscribe_fails" ->
                /\ monbus' = "open"
                /\ pipe' = Append(pipe, "monbus.close")
                /\ Raise("BecomeMonitor")
                /\ UNCHANGED <<subscribed, selectors>>
    /\ UNCHANGED <<a, ret, ran, pty_master, pty_path, stdin_raw,
                   unit_properties, submitted, bus, lastMsg, waitLoop, lastRound,
                   proxyVars>>

\* The submission with its failure swallowed: run() goes on as if the unit
\* had started.
Submit_swallowed ==
    /\ pc = "submit"
    /\ \E ok \in BOOLEAN :
         /\ submitted' = Some([name |-> unit_name(a.name), mode |-> "fail",
                               properties |-> unit_properties, ok |-> ok])
         /\ doc' = IF ok THEN DocAfter ELSE doc
         /\ pc' = IF a.wait THEN "loop" ELSE "after"
         /\ UNCHANGED excs
    /\ UNCHANGED <<a, ret, pipe, ran, selectors, pty_master, pty_path,
                   stdin_raw, unit_properties, bus, monbus, subscribed,
                   lastMsg, waitLoop, lastRound, obj, methods, tr, fetches, lastOp, ops>>

\* Line 238: manager.Manager.StartTransientUnit(name, b'fail', properties).
\* It fails when, say, a unit of that name is active; otherwise the unit
\* exists from here on and the service describes it.
Submit ==
    /\ pc = "submit"
    /\ \E ok \in BOOLEAN :
         /\ submitted' = Some([name |-> unit_name(a.name), mode |-> "fail",
                               properties |-> unit_properties, ok |-> ok])
         /\ IF ok
            THEN /\ doc' = DocAfter
                 /\ pc' = IF a.wait THEN "loop" ELSE "after"
                 /\ UNCHANGED excs
            ELSE /\ Raise("StartTransientUnit")
                 /\ UNCHANGED doc
    /\ UNCHANGED <<a, ret, pipe, ran, selectors, pty_master, pty_path,
                   stdin_raw, unit_properties, bus, monbus, subscribed,
                   lastMsg, waitLoop, lastRound, obj, methods, tr, fetches, lastOp, ops>>

\* What monbus.process() hands back: the empty message, or a
\* PropertiesChanged signal with its path and the SubState it reports.
OtherPath == <<"/", "o">>
EmptyMsg == [empty |-> TRUE, path |-> <<>>, sub |-> None]
Signal_(path, sub) == [empty |-> FALSE, path |-> path, sub |-> sub]
Messages ==
    {EmptyMsg, Signal_(OtherPath, Some("exited"))}
    \cup {Signal_(obj.path, sub) :
            sub \in {None, Some("running"), Some("exited"), Some("failed"),
                     Some("dead")}}

\* The test with only b'exited' taken for the end of the unit.
is_exit_notification_exited(m, unit) ==
    /\ ~m.empty
    /\ m.path = unit.path
    /\ m.sub = Some("exited")

\* Lines 258-264: the message that makes the loop break.
is_exit_notification(m, unit) ==
    /\ ~m.empty
    /\ m.path = unit.path
    /\ m.sub # None
    /\ Val(m.sub) \in EXIT_SUBSTATES

\* The test without `not _in`: MainPID is read in every round.
fallback_reads_pid_any_round(timeout, ready) == TruthyInt(timeout)

\* Line 266: _wait_polling and not _in and unit.Service.MainPID == 0
fallback_reads_pid(timeout, ready) == TruthyInt(timeout) /\ ready = {}

RECURSIVE Remove(_, _)
Remove(list, x) ==
    IF list = <<>> THEN <<>>
    ELSE IF Head(list) = x THEN Tail(list)
         ELSE <<Head(list)>> \o Remove(Tail(list), x)

\* The read of the terminal master without its `except OSError` branch
\* taking the master off the list.
forward_pty_listed(list, read_fails) == list

\* Lines 247-254: the list select() waits on, after the terminal master was
\* read: an OSError from the read takes the master off the list.
forward_pty(list, read_fails) ==
    IF read_fails THEN Remove(list, "pty_master") ELSE list

\* Lines 240-269: one round of the wait loop.  select() returns the ready
\* descriptors; with a timeout it may return none.  The terminal master is
\* read only when forwarding stdin has not raised.
Round ==
    /\ pc = "loop"
    /\ \E ready \in SUBSET Range(selectors) :
       \E m \in IF "monitor_fd" \in ready THEN Messages ELSE {EmptyMsg},
          in_ok \in IF "stdin" \in ready THEN BOOLEAN ELSE {TRUE},
          pty_ok \in IF "pty_master" \in ready THEN BOOLEAN ELSE {TRUE},
          out_ok \in IF "pty_master" \in ready THEN BOOLEAN ELSE {TRUE},
          pid_ok \in IF fallback_reads_pid(polling, ready) THEN BOOLEAN
                    ELSE {TRUE},
          MainPID \in IF fallback_reads_pid(polling, ready) THEN {0, 1}
                     ELSE {1} :
         /\ polling = None => ready # {}
         /\ LET in_fails == "stdin" \in ready /\ ~in_ok
                pty_fails == "pty_master" \in ready /\ ~in_fails /\ ~pty_ok
                out_fails == "pty_master" \in ready /\ pty_ok /\ ~out_ok
                pumps == "monitor_fd" \in ready
                seen == [ready |-> ready, pty_err |-> pty_fails,
                         gone |-> lastRound.gone \/ pty_fails, pid |-> None]
            IN  IF in_fails \/ out_fails
                THEN /\ Raise("OSError")
                     /\ waitLoop' = "raised"
                     /\ lastRound' = seen
                     /\ UNCHANGED <<selectors, lastMsg>>
                ELSE /\ selectors' = forward_pty(selectors, pty_fails)
                     /\ lastMsg' = IF pumps THEN Some(m) ELSE None
                     /\ IF pumps /\ m.empty
                        THEN /\ waitLoop' = "running"
                             /\ lastRound' = seen
                             /\ UNCHANGED <<pc, excs>>
                        ELSE IF pumps /\ is_exit_notification(m, obj)
                        THEN /\ pc' = "after"
                             /\ waitLoop' = "notification"
                             /\ lastRound' = seen
                             /\ UNCHANGED excs
                        ELSE IF fallback_reads_pid(polling, ready)
                        THEN IF ~pid_ok
                             THEN /\ Raise("MainPID")
                                  /\ waitLoop' = "raised"
                                  /\ lastRound' = seen
                             ELSE /\ lastRound' = [seen EXCEPT !.pid = Some(MainPID)]
                                  /\ IF MainPID = 0
                                     THEN /\ pc' = "after"
                                          /\ waitLoop' = "fallback"
                                          /\ UNCHANGED excs
                                     ELSE /\ waitLoop' = "running"
                                          /\ UNCHANGED <<pc, excs>>
                        ELSE /\ waitLoop' = "running"
                             /\ lastRound' = seen
                             /\ UNCHANGED <<pc, excs>>
    /\ UNCHANGED <<a, ret, pipe, ran, pty_master, pty_path, stdin_raw,
                   unit_properties, submitted, bus, monbus, subscribed,
                   proxyVars>>

\* The return without `unit.bus_context = bus_factory`: the unit keeps the
\* scope of its class, over the transport run() has closed.
Finish_unbound ==
    /\ pc = "after"
    /\ IF a.remain_after_exit
       THEN \E ok \in BOOLEAN :
              LET r == load_call(obj, FALSE, doc, TRUE, ok)
              IN  /\ tr' = Booked(tr, r)
                  /\ fetches' = Counted(fetches, r, FALSE)
                  /\ obj' = r.obj
                  /\ IF r.raised
                     THEN /\ Raise("unit.load")
                          /\ UNCHANGED ret
                     ELSE /\ ret' = "unit"
                          /\ pc' = "unwind"
                          /\ UNCHANGED excs
       ELSE /\ pc' = "unwind"
            /\ UNCHANGED <<obj, tr, fetches, ret, excs>>
    /\ UNCHANGED <<a, pipe, ran, selectors, pty_master, pty_path, stdin_raw,
                   unit_properties, submitted, bus, monbus, subscribed,
                   lastMsg, waitLoop, lastRound, methods, doc, lastOp, ops>>

\* Lines 271-274: the unit is loaded again, bound to bus_factory, returned.
Finish ==
    /\ pc = "after"
    /\ IF a.remain_after_exit
       THEN \E ok \in BOOLEAN :
              LET r == load_call(obj, FALSE, doc, TRUE, ok)
              IN  /\ tr' = Booked(tr, r)
                  /\ fetches' = Counted(fetches, r, FALSE)
                  /\ IF r.raised
                     THEN /\ obj' = r.obj
                          /\ Raise("unit.load")
                          /\ UNCHANGED ret
                     ELSE /\ obj' = [r.obj EXCEPT !.bus_context = "bus_factory"]
                          /\ ret' = "unit"
                          /\ pc' = "unwind"
                          /\ UNCHANGED excs
       ELSE /\ pc' = "unwind"
            /\ UNCHANGED <<obj, tr, fetches, ret, excs>>
    /\ UNCHANGED <<a, pipe, ran, selectors, pty_master, pty_path, stdin_raw,
                   unit_properties, submitted, bus, monbus, subscribed,
                   lastMsg, waitLoop, lastRound, methods, doc, lastOp, ops>>

\* The `with` is left: the transport closes, then CExit.__exit__ makes the
\* registered calls.  An exit that raises puts its exception in front.
Unwind ==
    /\ pc = "unwind"
    /\ \E closeOk \in BOOLEAN, k \in 0..Len(pipe) :
         LET called == CExit_exit(pipe, k)
             done == IF k = 0 THEN Range(called)
                     ELSE Range(SubSeq(called, 1, Len(called) - 1))
             e1 == IF bus = "open" /\ ~closeOk THEN <<"bus.close">> \o excs
                   ELSE excs
             e2 == IF k # 0 THEN <<"cleanup">> \o e1 ELSE e1
         IN  /\ ran' = called
             /\ excs' = e2
             /\ bus' = IF bus = "open" THEN "closed" ELSE bus
             /\ monbus' = IF "monbus.close" \in done THEN "closed" ELSE monbus
             /\ stdin_raw' = IF "tty.tcsetattr(stdin)" \in done THEN FALSE
                             ELSE stdin_raw
             /\ ret' = IF e2 = <<>> THEN ret ELSE "None"
             /\ pc' = "done"
    /\ UNCHANGED <<a, pipe, selectors, pty_master, pty_path, unit_properties,
                   submitted, subscribed, lastMsg, waitLoop, lastRound, proxyVars>>

(***************************************************************************)
(* Operations on a proxy: load, property read and write, method call.      *)
(***************************************************************************)
ArgLists == UNION {[1..n -> {"x"}] : n \in 0..MaxArgs}

\* _get_property through the scope: reached tells whether the transport
\* was asked, err whether the read raised.
get_property_op(o, i, p, openOk, ok) ==
    LET sc == Scope(o, openOk, ok)
    IN  [NoOp EXCEPT !.kind = "get", !.iface = i, !.name = p, !.scopes = 1,
                     !.bus = sc.bus, !.reached = sc.entered,
                     !.err = IF sc.entered /\ ok THEN "none" ELSE "error"]

\* A method call through the interface's proxy: the override, or the
\* generic path, which opens a scope only once its checks have passed.
call_method_op(o, meths, i, m, args, openOk, ok) ==
    LET r == _call_method(o, meths, i, m, args)
        sc == Scope(o, openOk, ok)
        seen == [NoOp EXCEPT !.kind = "call", !.iface = i, !.name = m,
                             !.args = args, !.handed = r.args,
                             !.route = r.route,
                             !.signed = m \in DOMAIN meths /\ i \in meths[m],
                             !.hidden = m \in DOMAIN o.attrs,
                             !.elem = o._interfaces[i]._methods_xml[m]]
    IN  IF r.route = "override" \/ r.err # "none"
        THEN [seen EXCEPT !.err = r.err]
        ELSE [seen EXCEPT !.scopes = 1, !.bus = sc.bus, !.reached = sc.entered,
                          !.packed = TRUE,
                          !.err = IF sc.entered /\ ok THEN "none" ELSE "error"]

\* The scope an operation opened, if it opened one.
ScopeOf(o, op, openOk, ok) ==
    IF op.scopes = 0 THEN [Scope(o, openOk, ok) EXCEPT !.created = 0, !.closes = 0]
    ELSE Scope(o, openOk, ok)

ProxyLoad ==
    /\ pc = "proxy"
    /\ ops < MaxOps
    /\ \E force \in BOOLEAN, openOk \in BOOLEAN, ok \in BOOLEAN :
         LET r == load_call(obj, force, doc, openOk, ok)
         IN  /\ obj' = r.obj
             /\ tr' = Booked(tr, r)
             /\ fetches' = Counted(fetches, r, force)
             /\ lastOp' = [NoOp EXCEPT !.kind = "load", !.scopes = r.scopes,
                                       !.bus = IF r.scopes = 0 THEN "none"
                                               ELSE r.sc.bus,
                                       !.reached = r.scopes = 1 /\ r.sc.entered,
                                       !.forced = force,
                                       !.fetched_doc = IF r.fetched THEN doc
                                                       ELSE <<>>,
                                       !.err = IF r.raised THEN "error"
                                               ELSE "none"]
    /\ ops' = ops + 1
    /\ UNCHANGED <<runVars, methods, doc>>

ProxyGet ==
    /\ pc = "proxy"
    /\ ops < MaxOps
    /\ \E i \in DOMAIN obj._interfaces, openOk \in BOOLEAN, ok \in BOOLEAN :
         \E p \in DOMAIN obj._interfaces[i]._properties_xml :
           /\ lastOp' = get_property_op(obj, i, p, openOk, ok)
           /\ tr' = Account(tr, Scope(obj, openOk, ok))
    /\ ops' = ops + 1
    /\ UNCHANGED <<runVars, obj, methods, doc, fetches>>

ProxySet ==
    /\ pc = "proxy"
    /\ ops < MaxOps
    /\ \E i \in DOMAIN obj._interfaces :
         \E p \in DOMAIN obj._interfaces[i]._properties_xml :
           lastOp' = [NoOp EXCEPT !.kind = "set", !.iface = i, !.name = p,
                                  !.elem = obj._interfaces[i]._properties_xml[p],
                                  !.err = _set_property(obj, i, p)]
    /\ ops' = ops + 1
    /\ UNCHANGED <<runVars, obj, methods, doc, tr, fetches>>

ProxyCall ==
    /\ pc = "proxy"
    /\ ops < MaxOps
    /\ \E i \in DOMAIN obj._interfaces, args \in ArgLists,
          openOk \in BOOLEAN, ok \in BOOLEAN :
         \E m \in DOMAIN obj._interfaces[i]._methods_xml :
           LET op == call_method_op(obj, methods, i, m, args, openOk, ok)
           IN  /\ lastOp' = op
               /\ tr' = Account(tr, ScopeOf(obj, op, openOk, ok))
    /\ ops' = ops + 1
    /\ UNCHANGED <<runVars, obj, methods, doc, fetches>>

\* The service starts answering Introspect with another document.
DocChange ==
    /\ pc = "proxy"
    /\ \E d \in Docs \ {doc} : doc' = d
    /\ UNCHANGED <<runVars, obj, methods, tr, fetches, lastOp, ops>>

\* After run() returned its unit, the caller reads a property through it.
Access ==
    /\ pc = "done"
    /\ ret = "unit"
    /\ ops < MaxAccess
    /\ \E i \in DOMAIN obj._interfaces, openOk \in BOOLEAN, ok \in BOOLEAN :
         \E p \in DOMAIN obj._interfaces[i]._properties_xml :
           /\ lastOp' = get_property_op(obj, i, p, openOk, ok)
           /\ tr' = Account(tr, Scope(obj, openOk, ok))
    /\ ops' = ops + 1
    /\ UNCHANGED <<runVars, obj, methods, doc, fetches>>

(***************************************************************************)
(* The specifications.                                                     *)
(***************************************************************************)
NoRound == [ready |-> {}, pty_err |-> FALSE, gone |-> FALSE, pid |-> None]
NoTransports == [created |-> 0, closed |-> 0, extCloses |-> 0]
NoFetches == [answered |-> 0, forced |-> 0]

RunIdle ==
    /\ excs = <<>>
    /\ ret = "None"
    /\ pipe = <<>>
    /\ ran = <<>>
    /\ selectors = <<>>
    /\ stdin_raw = FALSE
    /\ unit_properties = EmptyDict
    /\ submitted = None
    /\ bus = "new"
    /\ monbus = "none"
    /\ subscribed = FALSE
    /\ lastMsg = None
    /\ waitLoop = "none"
    /\ lastRound = NoRound

ProxyIdle ==
    /\ tr = NoTransports
    /\ fetches = NoFetches
    /\ lastOp = NoOp
    /\ ops = 0

\* run() is called: nothing is acquired yet, the unit does not exist.
Init ==
    /\ a \in RunArgs
    /\ pc = "start"
    /\ pty_master = a.pty_master
    /\ pty_path = a.pty_path
    /\ RunIdle
    /\ obj = SDObject(UnitDest, unit_path(unit_name(a.name)), Some("bus"))
    /\ methods = EmptyDict
    /\ doc = DocBefore
    /\ ProxyIdle

Next ==
    \/ Enter
    \/ AcquirePty
    \/ Build
    \/ MakeUnit
    \/ Monitor
    \/ Submit
    \/ Round
    \/ Finish
    \/ Unwind
    \/ Access

Spec == Init /\ [][Next]_vars

\* The classes a proxy can be of: the methods they sign, for which interfaces.
MethodSets ==
    { EmptyDict,
      overwrite_interface_method(EmptyDict, IfaceA, MethM),
      overwrite_interface_method(
          overwrite_interface_method(EmptyDict, IfaceA, MethM), IfaceM, MethG) }

ProxyPath == <<"/", "p">>

\* A proxy is constructed, with a transport of the caller's or without.
ProxyInit ==
    /\ a = CHOOSE x \in RunArgs : TRUE
    /\ pc = "proxy"
    /\ pty_master = None
    /\ pty_path = None
    /\ RunIdle
    /\ obj \in {SDObject(Dest, ProxyPath, b) : b \in {None, Some("bus")}}
    /\ methods \in MethodSets
    /\ doc \in Docs
    /\ ProxyIdle

ProxyNext ==
    \/ ProxyLoad
    \/ ProxyGet
    \/ ProxySet
    \/ ProxyCall
    \/ DocChange

ProxySpec == ProxyInit /\ [][ProxyNext]_vars

(***************************************************************************)
(* The claims.                                                             *)
(***************************************************************************)
Returned == pc = "done" /\ excs = <<>>
Failed == pc = "done" /\ excs # <<>>
Bag == Val(submitted).properties

InterfaceNodes(d) == {d[i] : i \in {j \in DOMAIN d : d[j].tag = "interface"}}

\* C1: when run() is over, every call registered on the cleanup stack has
\* been made exactly once, in the reverse of the order of registration, on
\* every way out of run().
C1_EachCleanupOnceReversed == pc = "done" => ran = Reverse(pipe)

\* C2: a proxy that was only ever loaded without force has had its document
\* fetched at most once.
C2_UnforcedFetchAtMostOnce == fetches.answered - fetches.forced <= 1

\* C3: when a cleanup call has raised, all the registered calls have been
\* made all the same before run() reports the failure.
C3_CleanupBestEffort ==
    (pc = "done" /\ "cleanup" \in Range(excs)) => Range(ran) = Range(pipe)

\* C4: the submitted bag carries RuntimeMaxUSec = s * 1,000,000 for a
\* positive runtime_max_sec s, and no RuntimeMaxUSec for 0 or None (the
\* caller's extra properties aside).
C4_RuntimeConversion ==
    (submitted # None /\ "RuntimeMaxUSec" \notin DOMAIN a.extra) =>
        IF a.runtime_max_sec # None /\ Val(a.runtime_max_sec) > 0
        THEN /\ "RuntimeMaxUSec" \in DOMAIN Bag
             /\ Bag["RuntimeMaxUSec"] = Some(Val(a.runtime_max_sec) * USecPerSec)
        ELSE "RuntimeMaxUSec" \notin DOMAIN Bag

\* C5: once StartTransientUnit has failed, run() is on its way out with
\* that error, returns nothing, and the wait loop has run no round, also
\* when wait was asked for.
C5_SubmitFailureSkipsLoop ==
    (submitted # None /\ ~Val(submitted).ok) =>
        /\ pc \in {"unwind", "done"}
        /\ excs # <<>>
        /\ excs[Len(excs)] = "StartTransientUnit"
        /\ ret = "None"
        /\ waitLoop = "none"
        /\ lastMsg = None

C5_Witness ==
    /\ submitted # None
    /\ ~Val(submitted).ok
    /\ a.wait
    /\ pc = "done"

\* C6: in the submitted bag, the caller's extra properties aside, a
\* terminal asked for (pty, or a pty_path) gives the terminal's four
\* properties and none of the descriptor properties, whatever descriptors
\* were passed; no terminal gives none of the terminal's properties.
TerminalKeys == {"StandardInput", "StandardOutput", "StandardError", "TTYPath"}
DescriptorKeys ==
    {"StandardInputFileDescriptor", "StandardOutputFileDescriptor",
     "StandardErrorFileDescriptor"}

C6_RoutingExclusive ==
    submitted # None =>
        LET own == DOMAIN Bag \ DOMAIN a.extra
        IN  IF a.pty \/ TruthySeq(a.pty_path)
            THEN /\ TerminalKeys \ DOMAIN a.extra \subseteq own
                 /\ \A k \in (own \cap TerminalKeys) \ {"TTYPath"} :
                        Bag[k] = Some("tty")
                 /\ "TTYPath" \in own => Bag["TTYPath"] = pty_path
                 /\ own \cap DescriptorKeys = {}
            ELSE own \cap TerminalKeys = {}

C6_Witness ==
    /\ submitted # None
    /\ a.pty
    /\ a.stdout # NoneObj
    /\ a.stdin # NoneObj
    /\ a.extra = EmptyDict
    /\ DOMAIN Bag \cap TerminalKeys = TerminalKeys

\* C7: a call of method M through interface I goes to the override, with
\* (I, *args) and without the generic path's checks and transport call,
\* whenever the proxy's class signs M for I; and it never goes to the
\* override when the class does not sign M for I.
C7_OverrideRouting ==
    lastOp.kind = "call" =>
        /\ lastOp.signed =>
              /\ lastOp.route = "override"
              /\ lastOp.handed = <<lastOp.iface>> \o lastOp.args
              /\ lastOp.scopes = 0
              /\ ~lastOp.reached
        /\ ~lastOp.signed => lastOp.route # "override"

\* C8: the proxy never closes a transport it was given; every transport it
\* opens itself is closed by the end of the operation, also when the
\* operation fails; and an operation that reaches the transport does so in
\* one scope, over the given transport when there is one.
C8_ScopedTransport ==
    /\ tr.extCloses = 0
    /\ tr.closed = tr.created
    /\ lastOp.scopes <= 1
    /\ lastOp.kind = "get" => lastOp.scopes = 1
    /\ lastOp.reached =>
          /\ lastOp.scopes = 1
          /\ lastOp.bus = IF obj._bus = None THEN "fresh" ELSE "ext"
    /\ obj._bus # None => tr.created = 0

C8_Witness ==
    /\ obj._bus = None
    /\ lastOp.kind = "call"
    /\ lastOp.reached
    /\ lastOp.err = "error"
    /\ tr.created > 0

\* C9: a round of the wait loop that pumps a non-empty notification for
\* the unit's own path with SubState exited, failed or dead leaves the loop,
\* and run() goes on to return.
C9_ExitOnNotification ==
    (/\ lastMsg # None
     /\ ~Val(lastMsg).empty
     /\ Val(lastMsg).path = obj.path
     /\ Val(lastMsg).sub \in {Some("exited"), Some("failed"), Some("dead")}) =>
        /\ pc \in {"after", "unwind", "done"}
        /\ waitLoop = "notification"

C9_Witness ==
    /\ Returned
    /\ lastMsg = Some(Signal_(obj.path, Some("dead")))
    /\ waitLoop = "notification"

\* C10: run() returns None when remain_after_exit is false; when it is
\* true it returns the unit's proxy, loaded from the document the service
\* gives after the submission, with the submitted unit's path and at least
\* one interface, and every later access through it opens a transport of
\* its own from bus_factory.
C10_ReturnValue ==
    Returned =>
        IF a.remain_after_exit
        THEN /\ ret = "unit"
             /\ obj.path = unit_path(Val(submitted).name)
             /\ DOMAIN obj._interfaces # {}
             /\ \A n \in InterfaceNodes(DocAfter) :
                    /\ n.name \in DOMAIN obj._interfaces
                    /\ obj._interfaces[n.name] = meta_interface(n)
             /\ obj.bus_context = "bus_factory"
             /\ lastOp.kind = "get" =>
                    /\ lastOp.bus = "fresh"
                    /\ tr.created = ops
                    /\ tr.extCloses = 0
        ELSE ret = "None" /\ lastOp.kind = "none"

C10_Witness ==
    /\ Returned
    /\ a.remain_after_exit
    /\ a.wait
    /\ lastOp.kind = "get"
    /\ lastOp.err = "none"

\* C11: a call on the generic path with a number of arguments other than
\* the number of the method's declared `in` arguments fails with TypeError,
\* before the signature is looked at, without packing the arguments and
\* without opening a scope or asking the transport.
InArity(elem) ==
    Cardinality({i \in DOMAIN elem.args : elem.args[i].direction = "in"})

C11_ArityChecked ==
    (/\ lastOp.kind = "call"
     /\ lastOp.route = "generic"
     /\ Len(lastOp.args) # InArity(lastOp.elem)) =>
        /\ lastOp.err = "TypeError"
        /\ ~lastOp.packed
        /\ lastOp.scopes = 0
        /\ ~lastOp.reached

C11_Witness ==
    /\ lastOp.kind = "call"
    /\ lastOp.route = "generic"
    /\ lastOp.iface = IfaceB
    /\ Len(lastOp.args) = 1
    /\ InArity(lastOp.elem) = 2
    /\ \E i \in DOMAIN lastOp.elem.args : HasBlockChar(lastOp.elem.args[i].type)
    /\ lastOp.err = "TypeError"

\* C12: a write of a property through the interface's proxy always fails,
\* with AttributeError when the property's access is read and with
\* NotImplementedError otherwise, and it opens no scope and asks the
\* transport nothing.
C12_WritesAlwaysFail ==
    lastOp.kind = "set" =>
        /\ lastOp.err = IF lastOp.elem.access = "read" THEN "AttributeError"
                        ELSE "NotImplementedError"
        /\ lastOp.scopes = 0
        /\ ~lastOp.reached
        /\ ~lastOp.packed

C12_Witness ==
    /\ lastOp.kind = "set"
    /\ lastOp.elem.access = "readwrite"
    /\ lastOp.err = "NotImplementedError"

\* C14: after a forced load that fetched document D', the proxy's interface
\* map holds exactly the interfaces D' declares, each as D' declares it,
\* and none that only an earlier document declared.
C14_ForcedReloadExact ==
    (lastOp.kind = "load" /\ lastOp.forced /\ lastOp.err = "none") =>
        /\ DOMAIN obj._interfaces =
               {n.name : n \in InterfaceNodes(lastOp.fetched_doc)}
        /\ \A n \in InterfaceNodes(lastOp.fetched_doc) :
               obj._interfaces[n.name] = meta_interface(n)

\* C13: the wait loop is left for the code after it only by a notification
\* for the unit's own path with SubState exited, failed or dead, or by the
\* fallback: a round with a timeout in which nothing was ready and MainPID
\* read 0.  Without a timeout the fallback never ends the loop, and a
\* notification for another path or with another SubState never does.
OwnExit(m) ==
    /\ ~m.empty
    /\ m.path = obj.path
    /\ m.sub \in {Some("exited"), Some("failed"), Some("dead")}

HasTimeout == a.user_mode \/ TruthyInt(a._wait_polling)

C13_LoopEndsOnlyTwoWays ==
    /\ (a.wait /\ pc = "after") => waitLoop \in {"notification", "fallback"}
    /\ waitLoop = "notification" => lastMsg # None /\ OwnExit(Val(lastMsg))
    /\ waitLoop = "fallback" =>
          /\ HasTimeout
          /\ lastRound.ready = {}
          /\ lastRound.pid = Some(0)
    /\ (lastMsg # None /\ ~OwnExit(Val(lastMsg))) =>
          waitLoop \notin {"notification", "fallback"}

C13_Witness ==
    /\ Returned
    /\ a.wait
    /\ waitLoop = "fallback"
    /\ lastRound.pid = Some(0)

\* C15: a terminal master run() has acquired itself, from openpty() or from
\* the machine's OpenPTY(), has its os.close registered on the cleanup stack.
C15_OwnMasterCloseRegistered ==
    pty_master \in {Some(LocalMaster), Some(MachineMaster)} =>
        "os.close(pty_master)" \in Range(pipe)

\* C16: a round in which reading the terminal master fails takes the master
\* off the list select() waits on and raises nothing; the loop goes on until
\* it is left as C13 says, and no later round finds the master ready.
C16_MasterReadErrorNotFatal ==
    /\ lastRound.pty_err =>
          /\ "pty_master" \notin Range(selectors)
          /\ waitLoop \in {"running", "notification"}
          /\ waitLoop = "running" => pc = "loop"
          /\ "OSError" \notin Range(excs)
    /\ lastRound.gone => "pty_master" \notin Range(selectors)
    /\ (lastRound.gone /\ ~lastRound.pty_err) =>
          "pty_master" \notin lastRound.ready

C16_Witness ==
    /\ Returned
    /\ lastRound.gone
    /\ ~lastRound.pty_err
    /\ waitLoop = "notification"

\* C17: with wait false run() opens no monitoring transport, subscribes to
\* nothing, registers no close of one, waits on no monitoring descriptor and
\* runs no round of the loop; and a raw mode set on stdin is the first thing
\* the cleanup restores when run() is left.
C17_NoWaitNoMonitoring ==
    ~a.wait =>
        /\ monbus = "none"
        /\ ~subscribed
        /\ "monbus.close" \notin Range(pipe)
        /\ "monitor_fd" \notin Range(selectors)
        /\ pc \notin {"monitor", "loop"}
        /\ waitLoop = "none"
        /\ lastMsg = None
        /\ lastRound = NoRound
        /\ (pc = "done" /\ "tty.tcsetattr(stdin)" \in Range(pipe)) =>
              /\ ran # <<>>
              /\ ran[1] = "tty.tcsetattr(stdin)"
              /\ stdin_raw => "cleanup" \in Range(excs)

C17_Witness ==
    /\ Returned
    /\ ~a.wait
    /\ submitted # None
    /\ "tty.tcsetattr(stdin)" \in Range(ran)
    /\ ~stdin_raw

\* C18: for every key of the caller's extra properties that run() computes
\* a property for as well, the submitted bag has the caller's value: the
\* value itself, or no such key when the caller's value is None.
ComputedKeys ==
    {"Description", "ExecStart", "RemainAfterExit", "WorkingDirectory", "User",
     "Nice", "RuntimeMaxUSec", "Environment"} \cup TerminalKeys \cup DescriptorKeys

C18_ExtraWins ==
    submitted # None =>
        \A k \in DOMAIN a.extra \cap ComputedKeys :
            IF a.extra[k] = None THEN k \notin DOMAIN Bag
            ELSE k \in DOMAIN Bag /\ Bag[k] = a.extra[k]

C18_Witness ==
    /\ submitted # None
    /\ a.nice = Some(0)
    /\ "Nice" \in DOMAIN a.extra
    /\ Bag["Nice"] = Some(5)
    /\ a.pty
    /\ Bag["StandardOutput"] = Some("journal")
    /\ Bag["StandardError"] = Some("tty")

\* C19: the submitted bag holds no None value: a property whose value came
\* out as None is not in it; and without a terminal each of stdin, stdout,
\* stderr has its descriptor property set to the caller's descriptor when
\* one was passed, descriptor 0 too, and has no such property otherwise.
StreamKeys ==
    ("StandardInputFileDescriptor" :> get_fno(a.stdin))
    @@ ("StandardOutputFileDescriptor" :> get_fno(a.stdout))
    @@ ("StandardErrorFileDescriptor" :> get_fno(a.stderr))

OptionalKeys ==
    ("WorkingDirectory" :> a.cwd) @@ ("User" :> a.user) @@ ("Nice" :> a.nice)

C19_UnsetDropped ==
    submitted # None =>
        /\ \A k \in DOMAIN Bag : Bag[k] # None
        /\ \A k \in DOMAIN OptionalKeys \ DOMAIN a.extra :
              OptionalKeys[k] = None => k \notin DOMAIN Bag
        /\ ~(a.pty \/ TruthySeq(a.pty_path)) =>
              \A k \in DOMAIN StreamKeys \ DOMAIN a.extra :
                  IF StreamKeys[k] = None THEN k \notin DOMAIN Bag
                  ELSE k \in DOMAIN Bag /\ Bag[k] = StreamKeys[k]

C19_Witness ==
    /\ submitted # None
    /\ ~a.pty
    /\ a.pty_path = None
    /\ a.stdin = IntObj(0)
    /\ Bag["StandardInputFileDescriptor"] = Some(0)
    /\ a.stdout = NoneObj
    /\ "StandardOutputFileDescriptor" \notin DOMAIN Bag
    /\ a.cwd = None
    /\ "WorkingDirectory" \notin DOMAIN Bag

\* C20: with wait true, when the unit is submitted the monitoring transport
\* is open, its close is registered and BecomeMonitor has succeeded; and
\* when opening it or subscribing failed, the unit is never submitted.
C20_SubscribedBeforeSubmit ==
    /\ (a.wait /\ pc = "submit") =>
          /\ monbus = "open"
          /\ subscribed
          /\ "monbus.close" \in Range(pipe)
    /\ (a.wait /\ submitted # None) =>
          /\ monbus # "none"
          /\ subscribed
          /\ "monbus.close" \in Range(pipe)
          /\ "monitor_fd" \in Range(selectors)
    /\ (excs # <<>> /\ excs[Len(excs)] \in {"monbus.open", "BecomeMonitor"}) =>
          submitted = None

C20_Witness ==
    /\ a.wait
    /\ submitted # None
    /\ Val(submitted).ok
    /\ subscribed
    /\ pc = "loop"

=============================================================================
